---- MODULE Spec2Model ----
(***************************************************************************)
(* Model of flaggie's record store (lib/flaggie/packagefile.py) and of its  *)
(* classification caches (lib/flaggie/cache.py).                           *)
(*                                                                         *)
(* Text is a sequence of one-character strings, so that parsing            *)
(* (str.split) and serialisation (' '.join) are computed and not assumed.  *)
(* A file on disk is its flat character sequence; reading splits it into   *)
(* lines, writing concatenates what each line object serialises to.        *)
(* Python objects compared by identity (PackageEntry has no __eq__) carry  *)
(* an id allocated at construction.                                        *)
(***************************************************************************)
EXTENDS Integers, Sequences, FiniteSets

VARIABLES
    isdir,      \* os.path.isdir(self._path)
    disk,       \* file name -> [exists, data]: the file system under self._path
    kw,         \* TRUE for PackageKeywordsFileSet, FALSE for PackageFileSet
    accept,     \* dbapi.settings['ACCEPT_KEYWORDS'] (text)
    files,      \* self._files: sequence of PackageFile objects
    nextId,     \* next object identity to allocate
    opens,      \* number of codecs.open(path, 'w') calls performed so far
    budget,     \* number of operations the caller will still perform
    edited,     \* ids of entries whose flags were edited since they were read
    since,      \* kinds of operation performed since the files were read
    lastOp,     \* name of the last operation
    lastArg,    \* its argument: [pkg, id, fi]
    lastErr,    \* exception that reached the caller ("" when none)
    lastRet,    \* ids of the entries it returned or yielded, in order
    touched,    \* indices of the loaded files sorted, appended to or removed
                \* from since they were read or last written
    lastFlags,  \* the flags the last operation yielded, in order
    gen,        \* the generator object the caller holds (store[pkg], iter(e)
                \* or e[name]) and how far it has run
    dbapi,      \* the catalog and the profile files behind it (cache.py: dbapi)
    cache,      \* DBAPICache.cache of each catalog-backed namespace
    effective_cache, \* DBAPICache.effective_cache of each of them
    groupcache, \* LicenseCache._groupcache
    envcache,   \* EnvCache.cache
    use_expand_vars, \* FlagCache.use_expand_vars, taken at construction
    queries,    \* number of times the catalog or a profile file was consulted
    changed,    \* TRUE once the catalog has changed behind the caches
    lastSet     \* the set the last cache operation returned

storeVars == <<isdir, disk, kw, accept, files, nextId, opens, edited, since,
               lastRet, touched, lastFlags, gen>>

cacheVars == <<dbapi, cache, effective_cache, groupcache, envcache,
               use_expand_vars, queries, changed, lastSet>>

vars == <<isdir, disk, kw, accept, files, nextId, opens, budget, edited, since,
          lastOp, lastArg, lastErr, lastRet, touched, lastFlags, gen,
          dbapi, cache, effective_cache, groupcache, envcache,
          use_expand_vars, queries, changed, lastSet>>

----------------------------------------------------------------------------
(* Bounds *)

MaxSteps == 2      \* operations per behaviour
MaxCacheOps == 3   \* cache operations per behaviour
MaxDeep == 3       \* operations per behaviour of the longer runs
MaxGen == 4        \* operations per behaviour of the iterations

----------------------------------------------------------------------------
(* Text *)

NL == "\n"
SP == " "

\* Code points of the characters used, for str.__lt__.
Ord(c) ==
    CASE c = NL -> 10
      [] c = SP -> 32
      [] c = "#" -> 35
      [] c = "+" -> 43
      [] c = "-" -> 45
      [] c = "a" -> 97
      [] c = "b" -> 98
      [] c = "x" -> 120
      [] c = "y" -> 121
      [] c = "~" -> 126

IsSpace(c) == c = SP \/ c = NL

RECURSIVE StrLt(_, _)
\* Python str.__lt__: lexicographic by code point, a proper prefix is smaller.
StrLt(s, t) ==
    IF t = <<>> THEN FALSE
    ELSE IF s = <<>> THEN TRUE
    ELSE IF Head(s) = Head(t) THEN StrLt(Tail(s), Tail(t))
    ELSE Ord(Head(s)) < Ord(Head(t))

RECURSIVE SplitAcc(_, _, _)
SplitAcc(s, cur, acc) ==
    IF s = <<>> THEN (IF cur = <<>> THEN acc ELSE Append(acc, cur))
    ELSE IF IsSpace(Head(s))
         THEN SplitAcc(Tail(s), <<>>, IF cur = <<>> THEN acc ELSE Append(acc, cur))
         ELSE SplitAcc(Tail(s), Append(cur, Head(s)), acc)

\* Python l.split(): the maximal runs of non-whitespace characters.
Split(s) == SplitAcc(s, <<>>, <<>>)

RECURSIVE LinesAcc(_, _, _)
LinesAcc(s, cur, acc) ==
    IF s = <<>> THEN (IF cur = <<>> THEN acc ELSE Append(acc, cur))
    ELSE IF Head(s) = NL
         THEN LinesAcc(Tail(s), <<>>, Append(acc, Append(cur, NL)))
         ELSE LinesAcc(Tail(s), Append(cur, Head(s)), acc)

\* Iterating an open file: the lines, each with its line end, the last
\* possibly without.
ReadLines(s) == LinesAcc(s, <<>>, <<>>)

RECURSIVE Join(_)
\* ' '.join(toks)
Join(toks) ==
    IF toks = <<>> THEN <<>>
    ELSE IF Len(toks) = 1 THEN toks[1]
    ELSE toks[1] \o <<SP>> \o Join(Tail(toks))

RECURSIVE Concat(_)
Concat(ss) == IF ss = <<>> THEN <<>> ELSE Head(ss) \o Concat(Tail(ss))

\* the indices i, ascending, with keep[i] (keep a sequence of booleans)
SelectIdx(keep) ==
    LET I == {i \in 1..Len(keep) : keep[i]}
    IN [k \in 1..Cardinality(I) |->
          CHOOSE i \in I : Cardinality({j \in I : j < i}) = k - 1]

Reverse(s) == [i \in 1..Len(s) |-> s[Len(s) + 1 - i]]

RemoveAt(s, i) == SubSeq(s, 1, i - 1) \o SubSeq(s, i + 1, Len(s))

----------------------------------------------------------------------------
(* Line objects *)

\* PackageFlag.__init__
PackageFlag(s) ==
    IF Head(s) \in {"-", "+"}
    THEN [modifier |-> <<Head(s)>>, name |-> Tail(s)]
    ELSE [modifier |-> <<>>, name |-> s]

\* PackageFlag.toString
FlagToString(f) == f.modifier \o f.name

\* Whitespace.__init__
Whitespace(l) == [kind |-> "Whitespace", data |-> l]

\* PackageEntry.__init__ raises InvalidPackageEntry
InvalidPackageEntry(l) ==
    LET sl == Split(l) IN sl = <<>> \/ Head(Head(sl)) = "#"

\* as PackageEntry, but the new object starts out modified
PackageEntry_dirty(l, id) ==
    LET sl == Split(l) IN
    [kind |-> "PackageEntry", id |-> id, as_str |-> l, modified |-> TRUE,
     package |-> Head(sl),
     flags |-> [i \in 1..(Len(sl) - 1) |-> PackageFlag(sl[i + 1])]]

\* PackageEntry.__init__ on a line that parses; id is the new object's identity
PackageEntry(l, id) ==
    LET sl == Split(l) IN
    [kind |-> "PackageEntry", id |-> id, as_str |-> l, modified |-> FALSE,
     package |-> Head(sl),
     flags |-> [i \in 1..(Len(sl) - 1) |-> PackageFlag(sl[i + 1])]]

IsEntry(e) == e.kind = "PackageEntry"

\* the modified property of a line object (Whitespace: always False)
Modified(e) == IsEntry(e) /\ e.modified

\* bool(l): Whitespace is always true, PackageEntry goes by __len__
Truth(e) == IF IsEntry(e) THEN Len(e.flags) > 0 ELSE TRUE

\* as ToString, but an entry is serialised from its fields even when unmodified
ToString_reserialise(e) ==
    IF ~IsEntry(e) THEN e.data
    ELSE Join(<<e.package>> \o [i \in 1..Len(e.flags) |-> FlagToString(e.flags[i])])
         \o <<NL>>

\* Whitespace.toString / PackageEntry.toString
ToString(e) ==
    IF ~IsEntry(e) THEN e.data
    ELSE IF ~e.modified THEN e.as_str
    ELSE Join(<<e.package>> \o [i \in 1..Len(e.flags) |-> FlagToString(e.flags[i])])
         \o <<NL>>

\* PackageEntry.append(flag) with flag a string
EntryAppended(e, s) ==
    [e EXCEPT !.flags = Append(@, PackageFlag(s)), !.modified = TRUE]

\* PackageEntry.remove(flag) with flag the object at position k of e.flags
EntryRemoved(e, k) ==
    [e EXCEPT !.flags = RemoveAt(@, k), !.modified = TRUE]

\* PackageEntry.__delitem__(flag): drop every flag of that name
EntryDeleted(e, name) ==
    LET Keep(f) == f.name # name
        idx == SelectIdx([q \in 1..Len(e.flags) |-> Keep(e.flags[q])])
    IN [e EXCEPT !.flags = [i \in 1..Len(idx) |-> e.flags[idx[i]]],
                 !.modified = TRUE]

\* PackageEntry.__iter__ in declaration order
EntryIter_forward(e) == e.flags

\* PackageEntry.__iter__: the flags it yields, in order
EntryIter(e) == Reverse(e.flags)

\* PackageEntry.__getitem__(flag): the flags it yields, in order
EntryGetItem(e, name) ==
    LET it == EntryIter(e)
        idx == SelectIdx([q \in 1..Len(it) |-> name = it[q].name])
    IN [i \in 1..Len(idx) |-> it[idx[i]]]

\* PackageFlag.__lt__
FlagLt(f, g) == StrLt(f.name, g.name)

\* PackageEntry.__lt__
EntryLt(e, f) == StrLt(e.package, f.package)

\* as StableSort, but equal elements come out in reverse order
StableSort_unstable(s, lt) ==
    LET Before(j, i) == lt[j][i] \/ (~lt[i][j] /\ j > i)
        Rank(i) == Cardinality({j \in 1..Len(s) : Before(j, i)}) + 1
    IN [k \in 1..Len(s) |-> s[CHOOSE i \in 1..Len(s) : Rank(i) = k]]

\* list.sort() of s, lt[j][i] being s[j] < s[i]: ordered by __lt__, equal
\* elements keeping their order (stable)
StableSort(s, lt) ==
    LET Before(j, i) == lt[j][i] \/ (~lt[i][j] /\ j < i)
        Rank(i) == Cardinality({j \in 1..Len(s) : Before(j, i)}) + 1
    IN [k \in 1..Len(s) |-> s[CHOOSE i \in 1..Len(s) : Rank(i) = k]]

\* PackageEntry.sort
EntrySorted(e) ==
    [e EXCEPT !.flags =
         StableSort(@, [j \in 1..Len(e.flags) |-> [i \in 1..Len(e.flags) |->
                           FlagLt(e.flags[j], e.flags[i])]]),
       !.modified = TRUE]

----------------------------------------------------------------------------
(* PackageFile *)

RECURSIVE ParseLines(_, _)
\* the loop of PackageFile.__init__: one line object per line, ids from id on
ParseLines(ls, id) ==
    IF ls = <<>> THEN <<>>
    ELSE IF InvalidPackageEntry(Head(ls))
         THEN <<Whitespace(Head(ls))>> \o ParseLines(Tail(ls), id)
         ELSE <<PackageEntry(Head(ls), id)>> \o ParseLines(Tail(ls), id + 1)

\* PackageFile.__init__(path)
PackageFile(path, id) ==
    [path |-> path, modified_ |-> FALSE,
     items |-> IF disk[path].exists THEN ParseLines(ReadLines(disk[path].data), id)
               ELSE <<>>]

NumEntries(items) == Cardinality({i \in 1..Len(items) : IsEntry(items[i])})

\* PackageFile.modified (getter)
FileModified(f) ==
    f.modified_ \/ \E i \in 1..Len(f.items) : Modified(f.items[i])

\* PackageFile.sort
FileSorted(f) ==
    LET idx == SelectIdx([q \in 1..Len(f.items) |-> IsEntry(f.items[q])])
        ents == [i \in 1..Len(idx) |-> f.items[idx[i]]]
    IN [f EXCEPT !.items =
            StableSort(ents, [j \in 1..Len(ents) |-> [i \in 1..Len(ents) |->
                                EntryLt(ents[j], ents[i])]]),
          !.modified_ = TRUE]

\* as FileOutput, but only PackageEntry lines are written
FileOutput_entriesOnly(f) ==
    LET Emit(l) == IsEntry(l) /\ (~Modified(l) \/ Truth(l))
        idx == SelectIdx([q \in 1..Len(f.items) |-> Emit(f.items[q])])
    IN Concat([i \in 1..Len(idx) |-> ToString(f.items[idx[i]])])

\* what PackageFile.write sends to the file: the lines that pass
\* 'not l.modified or l', serialised
FileOutput(f) ==
    LET Emit(l) == ~Modified(l) \/ Truth(l)
        idx == SelectIdx([q \in 1..Len(f.items) |-> Emit(f.items[q])])
    IN Concat([i \in 1..Len(idx) |-> ToString(f.items[idx[i]])])

\* the object state PackageFile.write leaves behind after writing
FileWritten(f) ==
    [f EXCEPT !.modified_ = FALSE,
              !.items = [i \in 1..Len(f.items) |->
                           IF IsEntry(f.items[i])
                           THEN [f.items[i] EXCEPT !.modified = FALSE]
                           ELSE f.items[i]]]

----------------------------------------------------------------------------
(* PackageFileSet / PackageKeywordsFileSet *)

\* glob.glob(os.path.join(self._path, '*')) can only find these names;
\* they are listed in sorted order
DirNames == <<"f1", "f2", "flaggie">>

\* the name standing for self._path itself when it is not a directory
PlainName == "p"

Names == {DirNames[i] : i \in 1..Len(DirNames)} \cup {PlainName}

\* the list 'files' computed by PackageFileSet.read
ReadPaths ==
    IF isdir
    THEN LET Exists(n) == disk[n].exists
             idx == SelectIdx([q \in 1..Len(DirNames) |-> Exists(DirNames[q])])
         IN IF idx = <<>> THEN <<"flaggie">>
            ELSE [i \in 1..Len(idx) |-> DirNames[idx[i]]]
    ELSE <<PlainName>>

RECURSIVE ReadFiles(_, _)
\* the loop of PackageFileSet.read: one PackageFile per path
ReadFiles(paths, id) ==
    IF paths = <<>> THEN <<>>
    ELSE LET f == PackageFile(Head(paths), id)
         IN <<f>> \o ReadFiles(Tail(paths), id + NumEntries(f.items))

\* self._defkw of PackageKeywordsFileSet.__init__
DefKw ==
    LET sl == Split(accept)
        Keep(x) == Head(x) \notin {"~", "-"}
        idx == SelectIdx([q \in 1..Len(sl) |-> Keep(sl[q])])
    IN [i \in 1..Len(idx) |-> <<"~">> \o sl[idx[i]]]

RECURSIVE AppendAll(_, _)
\* 'for f in self._defkw: e.append(f)'
AppendAll(e, fl) ==
    IF fl = <<>> THEN e ELSE AppendAll(EntryAppended(e, Head(fl)), Tail(fl))

\* as WithDefaults, but without 'e.modified = False'
WithDefaults_dirty(e) ==
    IF IsEntry(e) /\ Len(e.flags) = 0 THEN AppendAll(e, DefKw) ELSE e

\* the 'set defaults' loop of PackageKeywordsFileSet.read on one entry
WithDefaults(e) ==
    IF IsEntry(e) /\ Len(e.flags) = 0
    THEN [AppendAll(e, DefKw) EXCEPT !.modified = FALSE]
    ELSE e

\* read() of the store's class on an unloaded store
ReadStore ==
    LET fs == ReadFiles(ReadPaths, nextId)
    IN IF kw
       THEN [i \in 1..Len(fs) |->
               [fs[i] EXCEPT !.items = [j \in 1..Len(fs[i].items) |->
                                          WithDefaults(fs[i].items[j])]]]
       ELSE fs

\* the value of the 'files' property: reads when nothing is loaded
Loaded == IF files # <<>> THEN files ELSE ReadStore

RECURSIVE CountEntries(_)
CountEntries(fs) ==
    IF fs = <<>> THEN 0 ELSE NumEntries(Head(fs).items) + CountEntries(Tail(fs))

\* identities used up once the 'files' property has been evaluated
LoadedNextId == IF files # <<>> THEN nextId ELSE nextId + CountEntries(ReadStore)

\* ghost state after evaluating 'files': a read starts a new history
LoadedEdited == IF files # <<>> THEN edited ELSE {}
LoadedSince == IF files # <<>> THEN since ELSE {}

\* the files changed as a list since they were read or last written, once
\* the files are loaded
LoadedTouched == IF files # <<>> THEN touched ELSE {}

\* as FileIter, but in declaration order
FileIter_forward(f) ==
    LET idx == SelectIdx([q \in 1..Len(f.items) |-> IsEntry(f.items[q])])
    IN [i \in 1..Len(idx) |-> f.items[idx[i]]]

\* the entries of file f in the order PackageFileSet.__iter__ yields them
FileIter(f) ==
    LET idx == SelectIdx([q \in 1..Len(f.items) |-> IsEntry(f.items[q])])
    IN Reverse([i \in 1..Len(idx) |-> f.items[idx[i]]])

\* PackageFileSet.__iter__ over the files fs
StoreIter(fs) == Concat([i \in 1..Len(fs) |-> FileIter(fs[Len(fs) + 1 - i])])

\* PackageFileSet.__getitem__(pkg) over the files fs
StoreGetItem(fs, pkg) ==
    LET all == StoreIter(fs)
        Match(e) == pkg = e.package
        idx == SelectIdx([q \in 1..Len(all) |-> Match(all[q])])
    IN [i \in 1..Len(idx) |-> all[idx[i]]]

\* no generator; the fields are: the function it runs (kind) and its
\* argument (pkg: the package or the flag name; id: the entry), whether its
\* body has begun and has returned, the positions of its reversed()
\* iterators (fidx over the files, iidx over the lines of file cur or over
\* the flags), whether the list it walks is still the store's list, and the
\* objects it alone still refers to (snap)
NoGen ==
    [kind |-> "none", pkg |-> <<>>, id |-> 0, started |-> FALSE, done |-> FALSE,
     fidx |-> 0, cur |-> 0, iidx |-> 0, attached |-> FALSE, snap |-> <<>>]

\* iter(e) (kind "iter") or e[name] (kind "lookup"): the generator object of
\* PackageEntry.__iter__ or __getitem__, not begun
EntryGen(kind, e, name) ==
    [NoGen EXCEPT !.kind = kind, !.id = e.id, !.pkg = name, !.snap = e]

\* the generator g once an operation has left the files as fs: the entry it
\* runs over is the object of that identity in the store as long as it is
\* one of the store's lines
GenAfter(g, fs) ==
    LET at == {p \in UNION {{<<fi, q>> : q \in 1..Len(fs[fi].items)} :
                                fi \in 1..Len(fs)} :
                  /\ IsEntry(fs[p[1]].items[p[2]])
                  /\ fs[p[1]].items[p[2]].id = g.id}
    IN IF g.kind \in {"iter", "lookup"} /\ at # {}
       THEN LET p == CHOOSE x \in at : TRUE
            IN [g EXCEPT !.snap = fs[p[1]].items[p[2]]]
       ELSE g

\* the generator g once PackageFileSet.write has written the files as fs and
\* replaced self._files by a new list: the old list is the generator's alone
GenDetached(g, fs) ==
    IF g.kind = "store" /\ g.attached
    THEN [g EXCEPT !.attached = FALSE, !.snap = fs]
    ELSE GenAfter(g, fs)

RECURSIVE StoreGenRun(_, _)
\* PackageFileSet.__getitem__ resumed over the files L, up to its next yield
\* or its return: a reversed() iterator yields list[index] while the index
\* is within the list as it is now, and is exhausted for good otherwise
StoreGenRun(g, L) ==
    IF g.done THEN [gen |-> g, ret |-> <<>>, fl |-> <<>>]
    ELSE IF g.cur = 0
    THEN IF g.fidx >= 1 /\ g.fidx <= Len(L)
         THEN StoreGenRun([g EXCEPT !.cur = g.fidx, !.fidx = g.fidx - 1,
                                    !.iidx = Len(L[g.fidx].items)], L)
         ELSE [gen |-> [g EXCEPT !.done = TRUE], ret |-> <<>>, fl |-> <<>>]
    ELSE IF g.iidx >= 1 /\ g.iidx <= Len(L[g.cur].items)
    THEN LET e == L[g.cur].items[g.iidx]
             g1 == [g EXCEPT !.iidx = g.iidx - 1]
         IN IF IsEntry(e) /\ g.pkg = e.package
            THEN [gen |-> g1, ret |-> <<e.id>>, fl |-> <<>>]
            ELSE StoreGenRun(g1, L)
    ELSE StoreGenRun([g EXCEPT !.cur = 0, !.iidx = 0], L)

RECURSIVE EntryGenRun(_, _)
\* PackageEntry.__iter__ or __getitem__ resumed over the entry e, up to its
\* next yield or its return
EntryGenRun(g, e) ==
    IF g.done THEN [gen |-> g, ret |-> <<>>, fl |-> <<>>]
    ELSE IF g.iidx >= 1 /\ g.iidx <= Len(e.flags)
    THEN LET f == e.flags[g.iidx]
             g1 == [g EXCEPT !.iidx = g.iidx - 1]
         IN IF g.kind = "iter" \/ g.pkg = f.name
            THEN [gen |-> g1, ret |-> <<>>, fl |-> <<f>>]
            ELSE EntryGenRun(g1, e)
    ELSE [gen |-> [g EXCEPT !.done = TRUE], ret |-> <<>>, fl |-> <<>>]

\* next(g) with the store's files as fs: the generator after, and the entry
\* (ret) or the flag (fl) it yields, none when it raises StopIteration.  The
\* body begins at the first call (g0): reversed() of the files fs, or of the
\* flags of its entry
GenRun(g, fs) ==
    LET g0 == IF g.started THEN g
              ELSE IF g.kind = "store"
              THEN [g EXCEPT !.started = TRUE, !.attached = TRUE,
                             !.fidx = Len(fs)]
              ELSE [g EXCEPT !.started = TRUE, !.iidx = Len(g.snap.flags)]
    IN IF g0.kind = "store"
       THEN StoreGenRun(g0, IF g0.attached THEN fs ELSE g0.snap)
       ELSE EntryGenRun(g0, g0.snap)

RECURSIVE GenDrain(_, _, _, _)
\* list(g): next(g) until it raises StopIteration, collecting the yields
GenDrain(g, fs, ret, fl) ==
    LET r == GenRun(g, fs)
    IN IF r.gen.done THEN [gen |-> r.gen, ret |-> ret, fl |-> fl]
       ELSE GenDrain(r.gen, fs, ret \o r.ret, fl \o r.fl)

\* as AppendTarget, but the first file
AppendTarget_first(fs) == 1

\* 'f = self.files[-1]' of PackageFileSet.append: index of the target file
AppendTarget(fs) == Len(fs)

\* 'x == pkg' as list.remove evaluates it: PackageEntry and Whitespace
\* define no __eq__, so only the very same object is equal
ListEq(e, arg) == arg.kind = "obj" /\ IsEntry(e) /\ e.id = arg.id

\* list.remove(pkg) on a PackageFile: position of the first equal element, 0
\* when it raises ValueError
RemoveIndex(items, arg) ==
    LET Eq(e) == ListEq(e, arg)
        idx == SelectIdx([q \in 1..Len(items) |-> Eq(items[q])])
    IN IF idx = <<>> THEN 0 ELSE idx[1]

\* as FileRemoved, but without 'f.modified = True'
FileRemoved_noFlag(f, arg) ==
    IF RemoveIndex(f.items, arg) = 0 THEN f
    ELSE [f EXCEPT !.items = RemoveAt(@, RemoveIndex(f.items, arg))]

\* one iteration of the loop of PackageFileSet.remove
FileRemoved(f, arg) ==
    IF RemoveIndex(f.items, arg) = 0 THEN f
    ELSE [f EXCEPT !.items = RemoveAt(@, RemoveIndex(f.items, arg)),
                   !.modified_ = TRUE]

\* 'found' at the end of PackageFileSet.remove
RemoveFound(fs, arg) == \E i \in 1..Len(fs) : RemoveIndex(fs[i].items, arg) # 0

\* 'for e in f: if pkg == e.package' reaches a Whitespace object, which has
\* no attribute package
HasWhitespace(f) == \E q \in 1..Len(f.items) : ~IsEntry(f.items[q])

\* one iteration of the outer loop of PackageFileSet.__delitem__ on a file
\* of entries only
FileDelItem(f, pkg) ==
    LET idx == SelectIdx([q \in 1..Len(f.items) |-> pkg # f.items[q].package])
    IN [f EXCEPT !.items = [i \in 1..Len(idx) |-> f.items[idx[i]]],
                 !.modified_ = TRUE]

RECURSIVE StoreDelItemFrom(_, _, _)
\* PackageFileSet.__delitem__(pkg) from the i-th file on: the files it leaves
\* and the exception it raises
StoreDelItemFrom(fs, i, pkg) ==
    IF i > Len(fs) THEN [files |-> fs, err |-> ""]
    ELSE IF HasWhitespace(fs[i]) THEN [files |-> fs, err |-> "AttributeError"]
    ELSE StoreDelItemFrom([fs EXCEPT ![i] = FileDelItem(fs[i], pkg)], i + 1, pkg)

RECURSIVE WriteAll(_, _)
\* the file system after 'for f in self._files: f.write()'
WriteAll(fs, d) ==
    IF fs = <<>> THEN d
    ELSE WriteAll(Tail(fs),
                  IF FileModified(Head(fs))
                  THEN [d EXCEPT ![Head(fs).path] =
                           [exists |-> TRUE, data |-> FileOutput(Head(fs))]]
                  ELSE d)

NumModified(fs) == Cardinality({i \in 1..Len(fs) : FileModified(fs[i])})

----------------------------------------------------------------------------
(* Inputs *)

\* texts of the files found on disk:
\*   ''
\*   'b -x x\n# a\n\na  y'
\*   'a\na  +x\n'
Texts ==
    { <<>>,
      <<"b", SP, "-", "x", SP, "x", NL, "#", SP, "a", NL, NL, "a", SP, SP, "y">>,
      <<"a", NL, "a", SP, SP, "+", "x", NL>> }

\* values of ACCEPT_KEYWORDS: "x ~y -a"
AcceptPool == { <<"x", SP, "~", "y", SP, "-", "a">> }

\* flag strings given to PackageEntry.append: "+y"
FlagPool == { <<"+", "y">> }

\* flag names given to PackageEntry.__delitem__
NamePool == { <<"x">> }

\* record literals given to PackageFileSet.append: "a +x", "b", "# a"
Literals == { <<"a", SP, "+", "x">>, <<"b">>, <<"#", SP, "a">> }

\* package expressions given to remove and __getitem__
Packages == { <<"a">> }

NoFile == [exists |-> FALSE, data |-> <<>>]

TextFile(t) == [exists |-> TRUE, data |-> t]

NoArg == [kind |-> "none", pkg |-> <<>>, id |-> 0, fi |-> 0]

----------------------------------------------------------------------------
(* Classification caches (lib/flaggie/cache.py) *)

\* the namespaces of Caches.caches, in the order the dict holds them
NsOrder == <<"use", "kw", "lic", "env">>

AllNs == {"use", "kw", "lic", "env"}

\* the namespaces backed by the catalog (the DBAPICache subclasses)
DbNs == {"use", "kw", "lic"}

\* DBAPICache.aux_key of each subclass
AuxKey(ns) ==
    CASE ns = "use" -> "IUSE"
      [] ns = "kw" -> "KEYWORDS"
      [] ns = "lic" -> "LICENSE"

\* the dict key None, under which glob is memoized
NoneKey == <<"None">>

\* package expressions given to the caches
CacheKeys == { <<"a">>, <<"b">> }

\* versions of the catalog, ordered by portage.versions
Versions == {1, 2}

\* str.lower()
Lower(s) == [i \in 1..Len(s) |-> IF s[i] = "A" THEN "a" ELSE s[i]]

RECURSIVE LStrip(_)
\* x.lstrip('+-')
LStrip(x) ==
    IF x # <<>> /\ Head(x) \in {"+", "-"} THEN LStrip(Tail(x)) ELSE x

\* the positions at which ' - ' occurs in the line l
SepAt(l) ==
    {i \in 1..Len(l) : /\ i + 2 <= Len(l)
                       /\ l[i] = SP /\ l[i + 1] = "-" /\ l[i + 2] = SP}

\* grab_use_desc(path, prefix): the keys of the dict it returns
grab_use_desc(f, prefix) ==
    IF ~f.exists THEN {}
    ELSE LET ls == ReadLines(f.data)
         IN {prefix \o SubSeq(ls[i], 1,
                          (CHOOSE j \in SepAt(ls[i]) :
                              \A m \in SepAt(ls[i]) : j <= m) - 1) :
                i \in {n \in 1..Len(ls) : SepAt(ls[n]) # {}}}

\* portage.versions.best(pkgs): the highest of the versions
best(pkgs) ==
    CHOOSE p \in {pkgs[i] : i \in 1..Len(pkgs)} :
        \A i \in 1..Len(pkgs) : pkgs[i] <= p

\* use_reduce(arg, matchall=True, flat=True): every condition taken as true,
\* the groups flattened, the || operators left in the list
use_reduce(arg) ==
    LET toks == Split(arg)
    IN {toks[i] : i \in {n \in 1..Len(toks) :
                            /\ toks[n] \notin {<<"(">>, <<")">>}
                            /\ toks[n][Len(toks[n])] # "?"}}

SeqRange(s) == {s[i] : i \in 1..Len(s)}

RECURSIVE AddGroups(_, _)
\* the loop body of LicenseCache.groups over the definitions defs, in order:
\* acc is the dict so far, as the sequence of its items in insertion order
AddGroups(acc, defs) ==
    IF defs = <<>> THEN acc
    ELSE LET k == <<"@">> \o Head(defs)[1]
             v == SeqRange(Head(defs)[2])
             pos == {i \in 1..Len(acc) : acc[i].name = k}
         IN AddGroups(IF pos = {}
                      THEN Append(acc, [name |-> k, members |-> v])
                      ELSE [acc EXCEPT ![CHOOSE i \in pos : TRUE].members = @ \cup v],
                      Tail(defs))

\* what LicenseCache.groups builds: the dict '@' + name -> members, tree by
\* tree and each file in its own order
GrabGroups(db) ==
    AddGroups(<<>>, Concat([r \in 1..Len(db.porttrees) |->
                              db.porttrees[r].license_groups]))

\* FlagCache._aux_parse
FlagAuxParse(arg) == {LStrip(x) : x \in SeqRange(Split(arg))}

\* KeywordCache._aux_parse
KeywordAuxParse(arg) ==
    {x \in SeqRange(Split(arg)) : Head(x) # "-"} \cup {<<"*">>, <<"*", "*">>}

RECURSIVE ExpandGroups(_, _)
\* 'lic.update(k for k, v in self.groups.items() if lic & v)': the generator
\* is consumed while lic grows, so a group sees the names of the groups
\* added before it
ExpandGroups(lic, groups) ==
    IF groups = <<>> THEN lic
    ELSE ExpandGroups(IF lic \cap Head(groups).members # {}
                      THEN lic \cup {Head(groups).name} ELSE lic,
                      Tail(groups))

\* LicenseCache._aux_parse, groups the value of self.groups
LicenseAuxParse(arg, groups) ==
    ExpandGroups(use_reduce(arg) \ {<<"|", "|">>}, groups)

\* self._aux_parse(arg) of the cache of namespace ns
AuxParse(ns, arg, groups) ==
    CASE ns = "use" -> FlagAuxParse(arg)
      [] ns = "kw" -> KeywordAuxParse(arg)
      [] ns = "lic" -> LicenseAuxParse(arg, groups)

\* an absent and a present dict entry
Unset == [has |-> FALSE, val |-> {}]
Memo(v) == [has |-> TRUE, val |-> v]

\* the cache dicts just after Caches.__init__
EmptyCache == [ns \in DbNs |-> [k \in CacheKeys \cup {NoneKey} |-> Unset]]
EmptyEffective == [ns \in DbNs |-> [k \in CacheKeys |-> Unset]]

\* the mutable fields of the four caches, as one record
CacheState ==
    [cache |-> cache, effective_cache |-> effective_cache,
     groupcache |-> groupcache, queries |-> queries]

\* LicenseCache.groups: the state after the property was read
LicenseGroups(S) ==
    IF S.groupcache.has THEN S
    ELSE [S EXCEPT !.groupcache = [has |-> TRUE, val |-> GrabGroups(dbapi)],
                   !.queries = @ + 1]

\* FlagCache.glob, computed: the trees are those of the catalog as it is
\* now, the USE_EXPAND names (expand) those __init__ kept
FlagGlob(db, expand) ==
    UNION {grab_use_desc(db.porttrees[r].use_desc, <<>>)
             \cup UNION {grab_use_desc(
                            IF Lower(k) \in DOMAIN db.porttrees[r].desc
                            THEN db.porttrees[r].desc[Lower(k)] ELSE NoFile,
                            Lower(k) \o <<"_">>) :
                            k \in SeqRange(expand)} :
              r \in 1..Len(db.porttrees)}

\* KeywordCache.glob, computed
KeywordGlob(db) ==
    LET kws == UNION {SeqRange(db.porttrees[r].arch_list) :
                         r \in 1..Len(db.porttrees)}
    IN kws \cup {<<"~">> \o x : x \in kws}
           \cup {<<"*">>, <<"*", "*">>, <<"~", "*">>}

\* LicenseCache.glob, computed, groups the value of self.groups
LicenseGlob(db, groups) ==
    UNION {(IF db.porttrees[r].licenses.exists
            THEN db.porttrees[r].licenses.names ELSE {})
             \cup {groups[i].name : i \in 1..Len(groups)} : r \in 1..Len(db.porttrees)}
      \ {<<"C", "V", "S">>}

\* EnvCache.glob
EnvGlob_files == envcache

EnvGlob == {}

\* the glob property of the cache of namespace ns: the state after and the value
Glob(S, ns) ==
    IF ns = "env" THEN [st |-> S, ret |-> EnvGlob]
    ELSE IF S.cache[ns][NoneKey].has
    THEN [st |-> S, ret |-> S.cache[ns][NoneKey].val]
    ELSE LET S1 == IF ns = "lic" /\ dbapi.porttrees # <<>>
                   THEN LicenseGroups(S) ELSE S
             v == CASE ns = "use" -> FlagGlob(dbapi, use_expand_vars)
                    [] ns = "kw" -> KeywordGlob(dbapi)
                    [] ns = "lic" -> LicenseGlob(dbapi, S1.groupcache.val)
         IN [st |-> [S1 EXCEPT !.cache[ns][NoneKey] = Memo(v),
                               !.queries = @ + 1],
             ret |-> v]

\* DBAPICache.__getitem__ over the best version only
GetItem_bestOnly(S, ns, k) ==
    IF ns = "env" THEN [st |-> S, ret |-> envcache]
    ELSE IF S.cache[ns][k].has
    THEN [st |-> S, ret |-> S.cache[ns][k].val]
    ELSE LET pkgs == dbapi.match[k]
             S1 == IF ns = "lic" /\ pkgs # <<>> THEN LicenseGroups(S) ELSE S
             flags == IF pkgs = <<>> THEN {}
                      ELSE AuxParse(ns, dbapi.aux[best(pkgs)][AuxKey(ns)],
                                    S1.groupcache.val)
         IN [st |-> [S1 EXCEPT !.cache[ns][k] = Memo(flags),
                               !.queries = @ + 1],
             ret |-> flags]

\* DBAPICache.__getitem__(k) and EnvCache.__getitem__(k)
GetItem(S, ns, k) ==
    IF ns = "env" THEN [st |-> S, ret |-> envcache]
    ELSE IF S.cache[ns][k].has
    THEN [st |-> S, ret |-> S.cache[ns][k].val]
    ELSE LET pkgs == dbapi.match[k]
             S1 == IF ns = "lic" /\ pkgs # <<>> THEN LicenseGroups(S) ELSE S
             flags == UNION {AuxParse(ns, dbapi.aux[pkgs[i]][AuxKey(ns)],
                                      S1.groupcache.val) : i \in 1..Len(pkgs)}
         IN [st |-> [S1 EXCEPT !.cache[ns][k] = Memo(flags),
                               !.queries = @ + 1],
             ret |-> flags]

\* DBAPICache.get_effective without its memo: computed on every call
GetEffective_recompute(S, ns, k) ==
    LET pkgs == dbapi.match[k]
        S1 == IF ns = "lic" /\ pkgs # <<>> THEN LicenseGroups(S) ELSE S
        flags == IF pkgs # <<>>
                 THEN AuxParse(ns, dbapi.aux[best(pkgs)][AuxKey(ns)],
                               S1.groupcache.val)
                 ELSE {}
    IN [st |-> [S1 EXCEPT !.effective_cache[ns][k] = Memo(flags),
                          !.queries = @ + 1],
        ret |-> flags]

\* DBAPICache.get_effective(k)
GetEffective(S, ns, k) ==
    IF S.effective_cache[ns][k].has
    THEN [st |-> S, ret |-> S.effective_cache[ns][k].val]
    ELSE LET pkgs == dbapi.match[k]
             S1 == IF ns = "lic" /\ pkgs # <<>> THEN LicenseGroups(S) ELSE S
             flags == IF pkgs # <<>>
                      THEN AuxParse(ns, dbapi.aux[best(pkgs)][AuxKey(ns)],
                                    S1.groupcache.val)
                      ELSE {}
         IN [st |-> [S1 EXCEPT !.effective_cache[ns][k] = Memo(flags),
                               !.queries = @ + 1],
             ret |-> flags]

\* `if not restrict: restrict = frozenset(self.caches)`
Restrict(restrict) == IF restrict = {} THEN AllNs ELSE restrict

RECURSIVE GlobWhatisFrom(_, _, _, _, _)
\* the loop of Caches.glob_whatis from the i-th namespace on
GlobWhatisFrom(S, i, arg, restrict, ret) ==
    IF i > Len(NsOrder) THEN [st |-> S, ret |-> ret]
    ELSE IF NsOrder[i] \notin restrict
    THEN GlobWhatisFrom(S, i + 1, arg, restrict, ret)
    ELSE LET g == Glob(S, NsOrder[i])
         IN GlobWhatisFrom(g.st, i + 1, arg, restrict,
                IF arg \in g.ret THEN ret \cup {NsOrder[i]} ELSE ret)

\* Caches.glob_whatis(arg, restrict)
GlobWhatis(S, arg, restrict) ==
    GlobWhatisFrom(S, 1, arg, Restrict(restrict), {})

RECURSIVE WhatisFrom(_, _, _, _, _, _)
\* the loop of Caches.whatis from the i-th namespace on
WhatisFrom(S, i, arg, pkg, restrict, ret) ==
    IF i > Len(NsOrder) THEN [st |-> S, ret |-> ret]
    ELSE IF NsOrder[i] \notin restrict
    THEN WhatisFrom(S, i + 1, arg, pkg, restrict, ret)
    ELSE LET g == GetItem(S, NsOrder[i], pkg)
         IN WhatisFrom(g.st, i + 1, arg, pkg, restrict,
                IF arg \in g.ret THEN ret \cup {NsOrder[i]} ELSE ret)

\* Caches.whatis(arg, pkg, restrict)
Whatis(S, arg, pkg, restrict) ==
    WhatisFrom(S, 1, arg, pkg, Restrict(restrict), {})

----------------------------------------------------------------------------
(* The catalogs the caches are run against *)

Tree1 ==
    [use_desc |-> TextFile(<<"x", SP, "-", SP, "a", NL, "b", NL>>),
     desc |-> [n \in {<<"a">>} |-> TextFile(<<"y", SP, "-", SP, "a", NL>>)],
     arch_list |-> << <<"x">> >>,
     licenses |-> [exists |-> TRUE, names |-> {<<"a">>, <<"C", "V", "S">>}],
     license_groups |-> << << <<"x">>, << <<"a">> >> >>,
                           << <<"y">>, << <<"@", "x">>, <<"b">> >> >> >>]

\* a tree without use.desc and without a licenses directory
Tree2 ==
    [use_desc |-> NoFile,
     desc |-> [n \in {<<"a">>} |-> NoFile],
     arch_list |-> << <<"y">> >>,
     licenses |-> [exists |-> FALSE, names |-> {}],
     license_groups |-> << << <<"x">>, << <<"b">> >> >> >>]

\* 'a' matches versions 1 and 2, 'b' matches nothing
World1 ==
    [match |-> [k \in CacheKeys |-> IF k = <<"a">> THEN <<1, 2>> ELSE <<>>],
     aux |-> [p \in Versions |->
                IF p = 1
                THEN [IUSE |-> <<"+", "x", SP, "y">>,
                      KEYWORDS |-> <<"x", SP, "-", "y">>,
                      LICENSE |-> <<"|", "|", SP, "(", SP, "a", SP, "b", SP, ")">>]
                ELSE [IUSE |-> <<"-", "+", "y">>,
                      KEYWORDS |-> <<"~", "x">>,
                      LICENSE |-> <<"x", "?", SP, "(", SP, "b", SP, ")">>]],
     porttrees |-> <<Tree1>>,
     use_expand |-> <<"A">>]

\* 'a' matches version 1 only, 'b' matches version 2; USE_EXPAND is unset
World2 ==
    [match |-> [k \in CacheKeys |-> IF k = <<"a">> THEN <<1>> ELSE <<2>>],
     aux |-> [p \in Versions |->
                IF p = 1
                THEN [IUSE |-> <<"y">>,
                      KEYWORDS |-> <<"-", "x">>,
                      LICENSE |-> <<"b">>]
                ELSE [IUSE |-> <<"x">>,
                      KEYWORDS |-> <<"y">>,
                      LICENSE |-> <<"a">>]],
     porttrees |-> <<Tree2, Tree1>>,
     use_expand |-> <<>>]

Worlds == {World1, World2}

\* the files found under etc/portage/env
EnvPool == { {}, {<<"x">>} }

\* tokens asked about
ArgPool == { <<"x">>, <<"a">> }

\* values of restrict
RestrictPool == { {}, {"kw", "env"} }

NoCacheArg == [kind |-> "cache", ns |-> "", key |-> <<>>, token |-> <<>>,
               restrict |-> {}]

CacheArg(ns, k) == [NoCacheArg EXCEPT !.ns = ns, !.key = k]

WhatisArg(arg, pkg, restrict) ==
    [NoCacheArg EXCEPT !.token = arg, !.key = pkg, !.restrict = restrict]

\* the store, left alone while the caches are exercised
StoreIdle ==
    /\ kw = FALSE
    /\ accept = <<>>
    /\ isdir = FALSE
    /\ disk = [m \in Names |-> NoFile]
    /\ files = <<>>
    /\ nextId = 1
    /\ opens = 0
    /\ edited = {}
    /\ since = {}
    /\ lastRet = <<>>
    /\ touched = {}
    /\ lastFlags = <<>>
    /\ gen = NoGen

\* the caches, left alone while the store is exercised
CacheIdle ==
    /\ dbapi = World1
    /\ cache = EmptyCache
    /\ effective_cache = EmptyEffective
    /\ groupcache = [has |-> FALSE, val |-> <<>>]
    /\ envcache = {}
    /\ use_expand_vars = Split(World1.use_expand)
    /\ queries = 0
    /\ changed = FALSE
    /\ lastSet = {}

\* a Caches object just constructed over some catalog
CacheInit ==
    /\ StoreIdle
    /\ dbapi \in Worlds
    /\ cache = EmptyCache
    /\ effective_cache = EmptyEffective
    /\ groupcache = [has |-> FALSE, val |-> <<>>]
    /\ envcache \in EnvPool
    /\ use_expand_vars = Split(dbapi.use_expand)
    /\ queries = 0
    /\ changed = FALSE
    /\ lastSet = {}
    /\ budget = MaxCacheOps
    /\ lastOp = "init"
    /\ lastArg = NoCacheArg
    /\ lastErr = ""

\* one cache operation: it leaves the caches as r.st and returns r.ret
CacheStep(op, arg, r) ==
    /\ budget > 0
    /\ budget' = budget - 1
    /\ lastOp' = op
    /\ lastArg' = arg
    /\ lastErr' = ""
    /\ lastSet' = r.ret
    /\ cache' = r.st.cache
    /\ effective_cache' = r.st.effective_cache
    /\ groupcache' = r.st.groupcache
    /\ queries' = r.st.queries
    /\ UNCHANGED storeVars

\* caches[ns].glob
CacheGlob ==
    /\ \E ns \in AllNs :
           CacheStep("CacheGlob", CacheArg(ns, NoneKey), Glob(CacheState, ns))
    /\ UNCHANGED <<dbapi, envcache, use_expand_vars, changed>>

\* caches['lic'].groups, read by the caller (LicenseCache.groups); the set
\* returned stands for the keys of the dict
CacheGroups ==
    /\ LET S == LicenseGroups(CacheState)
       IN CacheStep("CacheGroups", CacheArg("lic", NoneKey),
                    [st |-> S,
                     ret |-> {S.groupcache.val[i].name :
                                 i \in 1..Len(S.groupcache.val)}])
    /\ UNCHANGED <<dbapi, envcache, use_expand_vars, changed>>

\* caches[ns][k]
CacheGetItem ==
    /\ \E ns \in AllNs, k \in CacheKeys :
           CacheStep("CacheGetItem", CacheArg(ns, k), GetItem(CacheState, ns, k))
    /\ UNCHANGED <<dbapi, envcache, use_expand_vars, changed>>

\* caches[ns].get_effective(k)
CacheGetEffective ==
    /\ \E ns \in DbNs, k \in CacheKeys :
           CacheStep("CacheGetEffective", CacheArg(ns, k),
                     GetEffective(CacheState, ns, k))
    /\ UNCHANGED <<dbapi, envcache, use_expand_vars, changed>>

\* caches.glob_whatis(arg, restrict)
CacheGlobWhatis ==
    /\ \E arg \in ArgPool, restrict \in RestrictPool :
           CacheStep("CacheGlobWhatis", WhatisArg(arg, <<>>, restrict),
                     GlobWhatis(CacheState, arg, restrict))
    /\ UNCHANGED <<dbapi, envcache, use_expand_vars, changed>>

\* caches.whatis(arg, pkg, restrict)
CacheWhatis ==
    /\ \E arg \in ArgPool, pkg \in CacheKeys, restrict \in RestrictPool :
           CacheStep("CacheWhatis", WhatisArg(arg, pkg, restrict),
                     Whatis(CacheState, arg, pkg, restrict))
    /\ UNCHANGED <<dbapi, envcache, use_expand_vars, changed>>

\* the catalog changes behind the caches
CatalogChange ==
    /\ budget > 0
    /\ budget' = budget - 1
    /\ dbapi' \in Worlds \ {dbapi}
    /\ changed' = TRUE
    /\ lastOp' = "CatalogChange"
    /\ lastArg' = NoCacheArg
    /\ lastErr' = ""
    /\ lastSet' = {}
    /\ UNCHANGED <<cache, effective_cache, groupcache, envcache,
                   use_expand_vars, queries>>
    /\ UNCHANGED storeVars

CacheNext ==
    \/ CacheGlob
    \/ CacheGroups
    \/ CacheGetItem
    \/ CacheGetEffective
    \/ CacheGlobWhatis
    \/ CacheWhatis
    \/ CatalogChange

SpecCache == CacheInit /\ [][CacheNext]_vars

----------------------------------------------------------------------------
(* Initial state: a store object just constructed over some file system; a
   directory of two files holds the shorter text first *)

Init ==
    /\ kw \in BOOLEAN
    /\ accept \in (IF kw THEN AcceptPool ELSE {<<>>})
    /\ isdir \in BOOLEAN
    /\ \/ /\ ~isdir
          /\ \E f \in {NoFile} \cup {TextFile(t) : t \in Texts} :
               disk = [m \in Names |-> IF m = PlainName THEN f ELSE NoFile]
       \/ /\ isdir
          /\ disk = [m \in Names |-> NoFile]
       \/ /\ isdir
          /\ \E t1, t2 \in Texts :
               /\ Len(t1) <= Len(t2)
               /\ disk = [m \in Names |->
                            IF m = "f1" THEN TextFile(t1)
                            ELSE IF m = "f2" THEN TextFile(t2)
                            ELSE NoFile]
    /\ files = <<>>
    /\ nextId = 1
    /\ opens = 0
    /\ budget = MaxSteps
    /\ edited = {}
    /\ since = {}
    /\ lastOp = "init"
    /\ lastArg = NoArg
    /\ lastErr = ""
    /\ lastRet = <<>>
    /\ touched = {}
    /\ lastFlags = <<>>
    /\ gen = NoGen
    /\ CacheIdle

----------------------------------------------------------------------------
(* Operations *)

\* one call on the store or on one of its objects: its name, its argument,
\* the exception it raised, the entries and the flags it yielded
StepYield(op, arg, err, ret, fl) ==
    /\ budget > 0
    /\ budget' = budget - 1
    /\ lastOp' = op
    /\ lastArg' = arg
    /\ lastErr' = err
    /\ lastRet' = ret
    /\ lastFlags' = fl
    /\ UNCHANGED cacheVars

Step(op, arg, err, ret) == StepYield(op, arg, err, ret, <<>>)

ObjArg(id, fi) == [kind |-> "obj", pkg |-> <<>>, id |-> id, fi |-> fi]
StrArg(pkg) == [kind |-> "str", pkg |-> pkg, id |-> 0, fi |-> 0]
FileArg(fi) == [kind |-> "file", pkg |-> <<>>, id |-> 0, fi |-> fi]

\* a caller evaluates store.files (PackageFileSet.files)
Read ==
    /\ files' = Loaded
    /\ nextId' = LoadedNextId
    /\ edited' = LoadedEdited
    /\ since' = LoadedSince
    /\ touched' = LoadedTouched
    /\ Step("Read", NoArg, "", <<>>)
    /\ gen' = GenAfter(gen, files')
    /\ UNCHANGED <<isdir, disk, kw, accept, opens>>

\* a flag edit on an entry the caller got from the store (iterating the store
\* reads the files when none is loaded): the entry at position i of file fi
\* becomes new
EditEntry(op, fi, i, new) ==
    /\ files' = [Loaded EXCEPT ![fi].items[i] = new]
    /\ nextId' = LoadedNextId
    /\ edited' = LoadedEdited \cup {new.id}
    /\ since' = LoadedSince \cup {"flag"}
    /\ touched' = LoadedTouched
    /\ Step(op, ObjArg(new.id, fi), "", <<>>)
    /\ gen' = GenAfter(gen, files')
    /\ UNCHANGED <<isdir, disk, kw, accept, opens>>

\* PackageEntry.append(flag)
EntryAppend ==
    \E fi \in 1..Len(Loaded) : \E i \in 1..Len(Loaded[fi].items) : \E s \in FlagPool :
        /\ IsEntry(Loaded[fi].items[i])
        /\ EditEntry("EntryAppend", fi, i, EntryAppended(Loaded[fi].items[i], s))

\* PackageEntry.remove(flag), flag being one of the entry's flag objects
EntryRemove ==
    \E fi \in 1..Len(Loaded) : \E i \in 1..Len(Loaded[fi].items) :
        /\ IsEntry(Loaded[fi].items[i])
        /\ \E k \in 1..Len(Loaded[fi].items[i].flags) :
             EditEntry("EntryRemove", fi, i, EntryRemoved(Loaded[fi].items[i], k))

\* PackageEntry.__delitem__(flag)
EntryDelItem ==
    \E fi \in 1..Len(Loaded) : \E i \in 1..Len(Loaded[fi].items) : \E n \in NamePool :
        /\ IsEntry(Loaded[fi].items[i])
        /\ EditEntry("EntryDelItem", fi, i, EntryDeleted(Loaded[fi].items[i], n))

\* PackageEntry.sort()
EntrySort ==
    \E fi \in 1..Len(Loaded) : \E i \in 1..Len(Loaded[fi].items) :
        /\ IsEntry(Loaded[fi].items[i])
        /\ EditEntry("EntrySort", fi, i, EntrySorted(Loaded[fi].items[i]))

\* PackageFileSet.append(pkg), pkg a string
StoreAppend ==
    /\ \E lit \in Literals :
           LET fs == Loaded
               n == AppendTarget(fs)
               id == LoadedNextId
               pkg == [PackageEntry(lit, id) EXCEPT !.modified = TRUE]
           IN IF InvalidPackageEntry(lit)
              THEN /\ files' = fs
                   /\ nextId' = id
                   /\ touched' = LoadedTouched
                   /\ Step("StoreAppend", StrArg(<<>>), "InvalidPackageEntry", <<>>)
              ELSE /\ files' = [fs EXCEPT ![n].items = Append(@, pkg)]
                   /\ nextId' = id + 1
                   /\ touched' = LoadedTouched \cup {n}
                   /\ Step("StoreAppend", StrArg(pkg.package), "", <<id>>)
    /\ edited' = LoadedEdited
    /\ since' = LoadedSince \cup {"store"}
    /\ gen' = GenAfter(gen, files')
    /\ UNCHANGED <<isdir, disk, kw, accept, opens>>

\* as StoreRemove, but with 'f.modified = True' on every file, found or not
StoreRemove_markAll ==
    /\ \E arg \in {StrArg(p) : p \in Packages} \cup {ObjArg(id, 0) : id \in 1..(LoadedNextId - 1)} :
           LET fs == Loaded
           IN /\ files' = [i \in 1..Len(fs) |->
                              [FileRemoved(fs[i], arg) EXCEPT !.modified_ = TRUE]]
              /\ touched' = LoadedTouched \cup
                     {i \in 1..Len(fs) : RemoveIndex(fs[i].items, arg) # 0}
              /\ Step("StoreRemove", arg,
                      IF RemoveFound(fs, arg) THEN "" ELSE "ValueError", <<>>)
    /\ nextId' = LoadedNextId
    /\ edited' = LoadedEdited
    /\ since' = LoadedSince \cup {"store"}
    /\ gen' = GenAfter(gen, files')
    /\ UNCHANGED <<isdir, disk, kw, accept, opens>>

\* PackageFileSet.remove(pkg), pkg a string or an entry object
StoreRemove ==
    /\ \E arg \in {StrArg(p) : p \in Packages} \cup {ObjArg(id, 0) : id \in 1..(LoadedNextId - 1)} :
           LET fs == Loaded
           IN /\ files' = [i \in 1..Len(fs) |-> FileRemoved(fs[i], arg)]
              /\ touched' = LoadedTouched \cup
                     {i \in 1..Len(fs) : RemoveIndex(fs[i].items, arg) # 0}
              /\ Step("StoreRemove", arg,
                      IF RemoveFound(fs, arg) THEN "" ELSE "ValueError", <<>>)
    /\ nextId' = LoadedNextId
    /\ edited' = LoadedEdited
    /\ since' = LoadedSince \cup {"store"}
    /\ gen' = GenAfter(gen, files')
    /\ UNCHANGED <<isdir, disk, kw, accept, opens>>

\* PackageFileSet.sort()
StoreSort ==
    /\ files' = [i \in 1..Len(Loaded) |-> FileSorted(Loaded[i])]
    /\ nextId' = LoadedNextId
    /\ edited' = LoadedEdited
    /\ since' = LoadedSince \cup {"store"}
    /\ touched' = 1..Len(Loaded)
    /\ Step("StoreSort", NoArg, "", <<>>)
    /\ gen' = GenAfter(gen, files')
    /\ UNCHANGED <<isdir, disk, kw, accept, opens>>

\* store.files[fi].sort() (PackageFile.sort)
FileSort ==
    /\ \E fi \in 1..Len(Loaded) :
           /\ files' = [Loaded EXCEPT ![fi] = FileSorted(Loaded[fi])]
           /\ touched' = LoadedTouched \cup {fi}
           /\ Step("FileSort", FileArg(fi), "", <<>>)
    /\ nextId' = LoadedNextId
    /\ edited' = LoadedEdited
    /\ since' = LoadedSince \cup {"store"}
    /\ gen' = GenAfter(gen, files')
    /\ UNCHANGED <<isdir, disk, kw, accept, opens>>

\* ids of the entries of f that are modified
ModifiedIds(f) ==
    LET idx == SelectIdx([q \in 1..Len(f.items) |-> Modified(f.items[q])])
    IN [i \in 1..Len(idx) |-> f.items[idx[i]].id]

\* the file objects once 'for f in self._files: f.write()' has run
FilesWritten(fs) ==
    [i \in 1..Len(fs) |->
        IF FileModified(fs[i]) THEN FileWritten(fs[i]) ELSE fs[i]]

\* PackageFileSet.write()
StoreWrite ==
    /\ IF files = <<>>
       THEN UNCHANGED <<disk, opens>>
       ELSE /\ disk' = WriteAll(files, disk)
            /\ opens' = opens + NumModified(files)
    /\ files' = <<>>
    /\ edited' = {}
    /\ since' = {}
    /\ touched' = {}
    /\ gen' = GenDetached(gen, FilesWritten(files))
    /\ Step("StoreWrite", NoArg, "", <<>>)
    /\ UNCHANGED <<isdir, kw, accept, nextId>>

\* store.files[fi].write() (PackageFile.write)
FileWrite ==
    /\ \E fi \in 1..Len(Loaded) :
           LET f == Loaded[fi]
           IN /\ IF FileModified(f)
                 THEN /\ disk' = [disk EXCEPT ![f.path] =
                                     [exists |-> TRUE, data |-> FileOutput(f)]]
                      /\ opens' = opens + 1
                      /\ files' = [Loaded EXCEPT ![fi] = FileWritten(f)]
                      /\ touched' = LoadedTouched \ {fi}
                 ELSE /\ files' = Loaded
                      /\ touched' = LoadedTouched
                      /\ UNCHANGED <<disk, opens>>
              /\ Step("FileWrite", FileArg(fi), "", ModifiedIds(f))
    /\ nextId' = LoadedNextId
    /\ edited' = LoadedEdited
    /\ since' = LoadedSince \cup {"write"}
    /\ gen' = GenAfter(gen, files')
    /\ UNCHANGED <<isdir, kw, accept>>

\* store.files[fi].modified = True (PackageFile.modified setter)
FileForce ==
    /\ \E fi \in 1..Len(Loaded) :
           /\ files' = [Loaded EXCEPT ![fi].modified_ = TRUE]
           /\ Step("FileForce", FileArg(fi), "", <<>>)
    /\ nextId' = LoadedNextId
    /\ edited' = LoadedEdited
    /\ since' = LoadedSince \cup {"force"}
    /\ touched' = LoadedTouched
    /\ gen' = GenAfter(gen, files')
    /\ UNCHANGED <<isdir, disk, kw, accept, opens>>

\* list(store[pkg]) (PackageFileSet.__getitem__)
Entries ==
    /\ \E pkg \in Packages :
           LET r == StoreGetItem(Loaded, pkg)
           IN Step("Entries", StrArg(pkg), "", [i \in 1..Len(r) |-> r[i].id])
    /\ files' = Loaded
    /\ nextId' = LoadedNextId
    /\ edited' = LoadedEdited
    /\ since' = LoadedSince
    /\ touched' = LoadedTouched
    /\ gen' = GenAfter(gen, files')
    /\ UNCHANGED <<isdir, disk, kw, accept, opens>>

\* del store[pkg] (PackageFileSet.__delitem__)
StoreDelItem ==
    /\ \E pkg \in Packages :
           LET fs == Loaded
               r == StoreDelItemFrom(fs, 1, pkg)
           IN /\ files' = r.files
              /\ touched' = LoadedTouched \cup
                     {i \in 1..Len(fs) : Len(r.files[i].items) # Len(fs[i].items)}
              /\ Step("StoreDelItem", StrArg(pkg), r.err, <<>>)
    /\ nextId' = LoadedNextId
    /\ edited' = LoadedEdited
    /\ since' = LoadedSince \cup {"store", "del"}
    /\ gen' = GenAfter(gen, files')
    /\ UNCHANGED <<isdir, disk, kw, accept, opens>>

\* list(entry) for an entry the caller got from the store
\* (PackageEntry.__iter__)
EntryIterate ==
    /\ \E fi \in 1..Len(Loaded) : \E i \in 1..Len(Loaded[fi].items) :
           /\ IsEntry(Loaded[fi].items[i])
           /\ StepYield("EntryIterate", ObjArg(Loaded[fi].items[i].id, fi), "",
                        <<>>, EntryIter(Loaded[fi].items[i]))
    /\ files' = Loaded
    /\ nextId' = LoadedNextId
    /\ edited' = LoadedEdited
    /\ since' = LoadedSince
    /\ touched' = LoadedTouched
    /\ gen' = GenAfter(gen, files')
    /\ UNCHANGED <<isdir, disk, kw, accept, opens>>

\* list(entry[name]) (PackageEntry.__getitem__)
EntryLookup ==
    /\ \E fi \in 1..Len(Loaded) : \E i \in 1..Len(Loaded[fi].items) :
       \E n \in NamePool :
           /\ IsEntry(Loaded[fi].items[i])
           /\ StepYield("EntryLookup",
                        [ObjArg(Loaded[fi].items[i].id, fi) EXCEPT !.pkg = n],
                        "", <<>>, EntryGetItem(Loaded[fi].items[i], n))
    /\ files' = Loaded
    /\ nextId' = LoadedNextId
    /\ edited' = LoadedEdited
    /\ since' = LoadedSince
    /\ touched' = LoadedTouched
    /\ gen' = GenAfter(gen, files')
    /\ UNCHANGED <<isdir, disk, kw, accept, opens>>

\* g = store[pkg]: calling the generator function runs none of its body, so
\* nothing is read
GenStore ==
    /\ \E pkg \in Packages :
           /\ gen' = [NoGen EXCEPT !.kind = "store", !.pkg = pkg]
           /\ Step("GenStore", StrArg(pkg), "", <<>>)
    /\ UNCHANGED <<isdir, disk, kw, accept, files, nextId, opens, edited,
                   since, touched>>

\* g = iter(e) for an entry the caller got from the store
GenIter ==
    /\ \E fi \in 1..Len(Loaded) : \E i \in 1..Len(Loaded[fi].items) :
           /\ IsEntry(Loaded[fi].items[i])
           /\ gen' = EntryGen("iter", Loaded[fi].items[i], <<>>)
           /\ Step("GenIter", ObjArg(Loaded[fi].items[i].id, fi), "", <<>>)
    /\ files' = Loaded
    /\ nextId' = LoadedNextId
    /\ edited' = LoadedEdited
    /\ since' = LoadedSince
    /\ touched' = LoadedTouched
    /\ UNCHANGED <<isdir, disk, kw, accept, opens>>

\* g = e[name] for an entry the caller got from the store
GenLookup ==
    /\ \E fi \in 1..Len(Loaded) : \E i \in 1..Len(Loaded[fi].items) :
       \E n \in NamePool :
           /\ IsEntry(Loaded[fi].items[i])
           /\ gen' = EntryGen("lookup", Loaded[fi].items[i], n)
           /\ Step("GenLookup",
                   [ObjArg(Loaded[fi].items[i].id, fi) EXCEPT !.pkg = n], "", <<>>)
    /\ files' = Loaded
    /\ nextId' = LoadedNextId
    /\ edited' = LoadedEdited
    /\ since' = LoadedSince
    /\ touched' = LoadedTouched
    /\ UNCHANGED <<isdir, disk, kw, accept, opens>>

\* the body of the store generator g begins at this call: it evaluates
\* self.files, which reads when nothing is loaded
GenReads(g) == g.kind = "store" /\ ~g.started

\* next(g) on the generator the caller holds
GenNext ==
    /\ gen.kind # "none"
    /\ LET fs == IF GenReads(gen) THEN Loaded ELSE files
           r == GenRun(gen, fs)
       IN /\ gen' = r.gen
          /\ files' = fs
          /\ StepYield("GenNext", [kind |-> "gen", pkg |-> gen.pkg, id |-> gen.id, fi |-> 0],
                       IF r.gen.done THEN "StopIteration" ELSE "", r.ret, r.fl)
    /\ nextId' = IF GenReads(gen) THEN LoadedNextId ELSE nextId
    /\ edited' = IF GenReads(gen) THEN LoadedEdited ELSE edited
    /\ since' = IF GenReads(gen) THEN LoadedSince ELSE since
    /\ touched' = IF GenReads(gen) THEN LoadedTouched ELSE touched
    /\ UNCHANGED <<isdir, disk, kw, accept, opens>>

\* list(g) on the generator the caller holds
GenList ==
    /\ gen.kind # "none"
    /\ LET fs == IF GenReads(gen) THEN Loaded ELSE files
           r == GenDrain(gen, fs, <<>>, <<>>)
       IN /\ gen' = r.gen
          /\ files' = fs
          /\ StepYield("GenList", [kind |-> "gen", pkg |-> gen.pkg, id |-> gen.id, fi |-> 0], "", r.ret, r.fl)
    /\ nextId' = IF GenReads(gen) THEN LoadedNextId ELSE nextId
    /\ edited' = IF GenReads(gen) THEN LoadedEdited ELSE edited
    /\ since' = IF GenReads(gen) THEN LoadedSince ELSE since
    /\ touched' = IF GenReads(gen) THEN LoadedTouched ELSE touched
    /\ UNCHANGED <<isdir, disk, kw, accept, opens>>

Next ==
    \/ Read
    \/ EntryAppend
    \/ EntryRemove
    \/ EntryDelItem
    \/ EntrySort
    \/ StoreAppend
    \/ StoreRemove
    \/ StoreSort
    \/ StoreWrite
    \/ FileWrite
    \/ FileForce
    \/ Entries
    \/ StoreDelItem
    \/ FileSort

Spec == Init /\ [][Next]_vars

\* a plain file or a directory of two files, not a keywords store, nothing
\* loaded and no generator held
GenInit ==
    /\ kw = FALSE
    /\ accept = <<>>
    /\ isdir \in BOOLEAN
    /\ \/ /\ ~isdir
          /\ \E t \in Texts \ {<<>>} :
               disk = [m \in Names |->
                         IF m = PlainName THEN TextFile(t) ELSE NoFile]
       \/ /\ isdir
          /\ \E t1, t2 \in Texts \ {<<>>} :
               /\ Len(t1) < Len(t2)
               /\ disk = [m \in Names |->
                            IF m = "f1" THEN TextFile(t1)
                            ELSE IF m = "f2" THEN TextFile(t2)
                            ELSE NoFile]
    /\ files = <<>>
    /\ nextId = 1
    /\ opens = 0
    /\ budget = MaxGen
    /\ edited = {}
    /\ since = {}
    /\ lastOp = "init"
    /\ lastArg = NoArg
    /\ lastErr = ""
    /\ lastRet = <<>>
    /\ touched = {}
    /\ lastFlags = <<>>
    /\ gen = NoGen
    /\ CacheIdle

\* the iterations and what the caller may do between two steps of one
GenStep ==
    \/ Entries
    \/ EntryIterate
    \/ EntryLookup
    \/ GenStore
    \/ GenIter
    \/ GenLookup
    \/ GenNext
    \/ GenList
    \/ StoreRemove
    \/ EntryRemove
    \/ StoreWrite

\* a store that is iterated, at once or through a generator the caller
\* holds while removing records or flags, or writing, between two next()
SpecGen == GenInit /\ [][GenStep]_vars

\* a keywords store over one file that holds records, or a plain store over
\* a directory of two files that both hold the shortest of these texts
DeepInit ==
    /\ kw \in BOOLEAN
    /\ accept \in (IF kw THEN AcceptPool ELSE {<<>>})
    /\ isdir \in BOOLEAN
    /\ \/ /\ ~isdir
          /\ kw
          /\ \E t \in Texts \ {<<>>} :
               disk = [m \in Names |-> IF m = PlainName THEN TextFile(t) ELSE NoFile]
       \/ /\ isdir
          /\ ~kw
          /\ \E t \in Texts \ {<<>>} :
               /\ \A u \in Texts \ {<<>>} : Len(t) <= Len(u)
               /\ disk = [m \in Names |->
                            IF m \in {"f1", "f2"} THEN TextFile(t) ELSE NoFile]
    /\ files = <<>>
    /\ nextId = 1
    /\ opens = 0
    /\ budget = MaxDeep
    /\ edited = {}
    /\ since = {}
    /\ lastOp = "init"
    /\ lastArg = NoArg
    /\ lastErr = ""
    /\ lastRet = <<>>
    /\ touched = {}
    /\ lastFlags = <<>>
    /\ gen = NoGen
    /\ CacheIdle

\* the same operations, in longer runs from fewer file systems
SpecDeep == DeepInit /\ [][Next]_vars

----------------------------------------------------------------------------
(* Properties *)

\* operations that count as a mutation of the store or of a record
Mutations == {"flag", "store", "force"}

\* positions <<fi, i>> of the PackageEntry objects in the files fs
EntryPositions(fs) ==
    {p \in UNION {{<<fi, i>> : i \in 1..Len(fs[fi].items)} : fi \in 1..Len(fs)} :
        IsEntry(fs[p[1]].items[p[2]])}

ItemAt(fs, p) == fs[p[1]].items[p[2]]

\* the text of file name n on disk d (nothing when it does not exist)
DiskText(d, n) == IF d[n].exists THEN d[n].data ELSE <<>>

\* C1: a store that was loaded and has seen no store-level append/remove/sort,
\* no flag edit (and no forced dirty flag) since then has no dirty file, and
\* write() on it, file-level or store-level, opens nothing for writing and
\* leaves the disk as it is.
C1_IdempotentWrite ==
    [][ /\ (lastOp' \in {"FileWrite", "StoreWrite"} /\ LoadedSince \cap Mutations = {})
            => (opens' = opens /\ disk' = disk)
        /\ (files' # <<>> /\ since' \cap Mutations = {})
            => \A i \in 1..Len(files') : ~FileModified(files'[i])
      ]_vars

\* a file with a record in it was loaded and written without any mutation
C1_Witness ==
    /\ lastOp = "FileWrite"
    /\ since = {"write"}
    /\ opens = 0
    /\ \E i \in 1..Len(files[lastArg.fi].items) : IsEntry(files[lastArg.fi].items[i])

\* C2: load, no edits, force the file's dirty flag, write: the file on disk
\* is, character for character, what it was.
C2_RoundTrip ==
    [][ (/\ lastOp' = "FileWrite"
         /\ LoadedSince \subseteq {"force"}
         /\ disk[Loaded[lastArg'.fi].path].exists)
        => disk' = disk
      ]_vars

\* a forced write of an unedited file holding a comment line and a record
\* whose spacing is not the canonical one
C2_Witness ==
    /\ lastOp = "FileWrite"
    /\ since = {"force", "write"}
    /\ opens = 1
    /\ LET items == files[lastArg.fi].items
       IN /\ \E i \in 1..Len(items) : ~IsEntry(items[i])
          /\ \E i \in 1..Len(items) :
                /\ IsEntry(items[i])
                /\ items[i].as_str #
                     Join(<<items[i].package>> \o
                          [k \in 1..Len(items[i].flags) |->
                             items[i].flags[k].modifier \o items[i].flags[k].name])
                     \o <<NL>>

\* serialisation of an edited record as PackageFile.write emits it: nothing
\* for a record left without flags
EditedText(e) ==
    IF e.flags = <<>> THEN <<>>
    ELSE Join(<<e.package>> \o
              [k \in 1..Len(e.flags) |-> e.flags[k].modifier \o e.flags[k].name])
         \o <<NL>>

\* file f, loaded from disk d and changed by flag edits only, is written to
\* disk e: line by line the original text, except at the edited records
FrameHolds(f, d, e) ==
    LET orig == ReadLines(DiskText(d, f.path))
    IN /\ Len(orig) = Len(f.items)
       /\ DiskText(e, f.path) =
            Concat([i \in 1..Len(orig) |->
                      IF IsEntry(f.items[i]) /\ f.items[i].id \in edited
                      THEN EditedText(f.items[i])
                      ELSE orig[i]])

\* C3: after load and flag-level edits only, write() leaves every passthrough
\* line and every unedited record with its original text, all in the original
\* order; only the lines of the edited records differ.
C3_EditFrame ==
    [][ /\ (lastOp' = "FileWrite" /\ LoadedSince \subseteq {"flag"})
            => /\ FrameHolds(Loaded[lastArg'.fi], disk, disk')
               /\ \A n \in Names \ {Loaded[lastArg'.fi].path} : disk'[n] = disk[n]
        /\ (lastOp' = "StoreWrite" /\ since \subseteq {"flag"})
            => \A i \in 1..Len(files) : FrameHolds(files[i], disk, disk')
      ]_vars

\* a file was written in which one record had been edited and another,
\* whose spacing is not canonical, had not
C3_Witness ==
    /\ lastOp = "FileWrite"
    /\ since = {"flag", "write"}
    /\ lastRet # <<>>
    /\ LET items == files[lastArg.fi].items
       IN \E i, j \in 1..Len(items) :
            /\ IsEntry(items[i]) /\ items[i].id \in edited
            /\ IsEntry(items[j]) /\ items[j].id \notin edited
            /\ items[j].as_str # EditedText(items[j])

\* C4: entries(pkgExpr), run over a store nobody edits meanwhile, yields
\* exactly the records of that expression, each once, later files before
\* earlier ones and, within a file, later records before earlier ones;
\* passthrough lines are never yielded.  The same holds when the generator
\* is created first and run later: it reads the store as it is at its first
\* next(), and its first item is the last declared record.
C4_EntriesOrder ==
    [][/\ lastOp' = "Entries" =>
            LET fs == Loaded
                r == lastRet'
                Pos == {p \in EntryPositions(fs) :
                           ItemAt(fs, p).package = lastArg'.pkg}
                PosOf(id) == CHOOSE p \in EntryPositions(fs) :
                                 ItemAt(fs, p).id = id
            IN /\ Len(r) = Cardinality(Pos)
               /\ \A p \in Pos : \E k \in 1..Len(r) : r[k] = ItemAt(fs, p).id
               /\ \A k, l \in 1..Len(r) :
                    k < l => \/ PosOf(r[k])[1] > PosOf(r[l])[1]
                             \/ /\ PosOf(r[k])[1] = PosOf(r[l])[1]
                                /\ PosOf(r[k])[2] > PosOf(r[l])[2]
       /\ (lastOp' = "GenList" /\ gen.kind = "store" /\ ~gen.started) =>
            LET whole == StoreGetItem(Loaded, gen.pkg)
            IN lastRet' = [i \in 1..Len(whole) |-> whole[i].id]
       /\ (lastOp' = "GenNext" /\ gen.kind = "store" /\ ~gen.started) =>
            LET head == StoreGetItem(Loaded, gen.pkg)
            IN IF head = <<>>
               THEN lastRet' = <<>> /\ lastErr' = "StopIteration"
               ELSE lastRet' = <<head[1].id>> /\ lastErr' = ""]_vars

\* two records of the same expression in one file were yielded
C4_Witness ==
    /\ lastOp = "Entries"
    /\ Len(lastRet) >= 2
    /\ \E fi \in 1..Len(files) : \E i, j \in 1..Len(files[fi].items) :
         /\ i < j
         /\ IsEntry(files[fi].items[i]) /\ IsEntry(files[fi].items[j])
         /\ files[fi].items[j].id = lastRet[1]
         /\ files[fi].items[i].id = lastRet[2]

\* C5 (as claimed): remove(packageExpr) with a package expression removes
\* every record of that expression from every file, and raises the NotFound
\* error exactly when no record in any file has that expression.
C5_RemoveByExpression ==
    [][ (lastOp' = "StoreRemove" /\ lastArg'.kind = "str") =>
        LET fs == Loaded
            matched == \E p \in EntryPositions(fs) :
                          ItemAt(fs, p).package = lastArg'.pkg
        IN /\ (lastErr' = "ValueError") <=> ~matched
           /\ \A p \in EntryPositions(files') :
                 ItemAt(files', p).package # lastArg'.pkg
      ]_vars

\* C6 (as claimed): right after append has created a record for package P,
\* remove(P) succeeds.
C6_AppendThenRemove ==
    [][ (/\ lastOp = "StoreAppend" /\ lastErr = ""
         /\ lastOp' = "StoreRemove" /\ lastArg'.kind = "str"
         /\ lastArg'.pkg = lastArg.pkg)
        => lastErr' = ""
      ]_vars

\* the flags 'set defaults' gives a record without flags: one unmodified '~'
\* keyword per ACCEPT_KEYWORDS token that starts with neither '~' nor '-'
DefaultFlags ==
    LET sl == Split(accept)
        I == {i \in 1..Len(sl) : sl[i][1] # "~" /\ sl[i][1] # "-"}
    IN {[modifier |-> <<>>, name |-> <<"~">> \o sl[i]] : i \in I}

\* C7: in the keyword store, after load, a record written without flags
\* carries the default flags and is not dirty, no file is dirty, and write()
\* leaves the disk as it is.
C7_DefaultsNotDirty ==
    [][ /\ (kw /\ files' # <<>> /\ since' \cap Mutations = {}) =>
            /\ \A p \in EntryPositions(files') :
                  LET e == ItemAt(files', p)
                  IN Len(Split(e.as_str)) = 1 =>
                       /\ {e.flags[k] : k \in 1..Len(e.flags)} = DefaultFlags
                       /\ Len(e.flags) = Cardinality(DefaultFlags)
                       /\ ~e.modified
            /\ \A i \in 1..Len(files') : ~FileModified(files'[i])
        /\ (kw /\ lastOp' \in {"FileWrite", "StoreWrite"}
               /\ LoadedSince \cap Mutations = {})
            => disk' = disk
      ]_vars

\* a keyword file with a flagless record, now carrying defaults, went
\* through write() untouched
C7_Witness ==
    /\ kw
    /\ lastOp = "FileWrite"
    /\ since = {"write"}
    /\ opens = 0
    /\ \E i \in 1..Len(files[lastArg.fi].items) :
         LET e == files[lastArg.fi].items[i]
         IN IsEntry(e) /\ Len(Split(e.as_str)) = 1 /\ e.flags # <<>>

\* C8 (its last sentence, for a file all of whose line objects pass the
\* guard of write(), none being a dirty record without flags): when a dirty
\* file is written, the written file has exactly as many lines as the
\* in-memory file has entries.
C8_LinePerEntry ==
    [][ (/\ lastOp' = "FileWrite"
         /\ FileModified(Loaded[lastArg'.fi])
         /\ \A i \in 1..Len(Loaded[lastArg'.fi].items) :
                LET e == Loaded[lastArg'.fi].items[i]
                IN ~Modified(e) \/ Truth(e)) =>
        LET f == Loaded[lastArg'.fi]
        IN /\ disk'[f.path].exists
           /\ Len(ReadLines(disk'[f.path].data)) = Len(f.items)
      ]_vars

\* C9: append(recordLiteral) puts the new record, dirty, at the end of the
\* last file, which then reports dirty; the other files are unchanged; a
\* store without files on disk has one synthetic empty file as the target.
C9_AppendLast ==
    [][ (lastOp' = "StoreAppend" /\ lastErr' = "") =>
        LET fs == Loaded
            n == Len(fs)
        IN /\ n >= 1
           /\ Len(files') = n
           /\ \A i \in 1..(n - 1) : files'[i] = fs[i]
           /\ files'[n].path = fs[n].path
           /\ Len(files'[n].items) = Len(fs[n].items) + 1
           /\ SubSeq(files'[n].items, 1, Len(fs[n].items)) = fs[n].items
           /\ LET e == files'[n].items[Len(files'[n].items)]
              IN /\ IsEntry(e) /\ e.modified
                 /\ lastRet' = <<e.id>>
                 /\ e.package = lastArg'.pkg
                 /\ \A p \in EntryPositions(fs) : ItemAt(fs, p).id # e.id
           /\ FileModified(files'[n])
           /\ (files = <<>> /\ \A m \in Names : ~disk[m].exists) =>
                 (n = 1 /\ fs[1].items = <<>>)
      ]_vars

\* a record was appended to the second of two files
C9_Witness ==
    /\ lastOp = "StoreAppend"
    /\ lastErr = ""
    /\ Len(files) = 2
    /\ files[1].items # <<>>
    /\ files[2].items[Len(files[2].items)].id = lastRet[1]

\* C10: sort() leaves in every file exactly its records, each as it was
\* (flags, raw text, dirty flag), ordered by package expression, records of
\* equal expression in their former order, no passthrough line, and the
\* file reporting dirty.
C10_SortFiles ==
    [][ lastOp' = "StoreSort" =>
        LET fs == Loaded
        IN /\ Len(files') = Len(fs)
           /\ \A fi \in 1..Len(fs) :
                LET old == fs[fi].items
                    new == files'[fi].items
                    OldAt(k) == CHOOSE i \in 1..Len(old) :
                                   IsEntry(old[i]) /\ old[i].id = new[k].id
                IN /\ \A k \in 1..Len(new) : IsEntry(new[k])
                   /\ Len(new) = Cardinality({i \in 1..Len(old) : IsEntry(old[i])})
                   /\ \A i \in 1..Len(old) :
                        IsEntry(old[i]) => \E k \in 1..Len(new) : new[k] = old[i]
                   /\ \A k, l \in 1..Len(new) :
                        k < l => /\ ~StrLt(new[l].package, new[k].package)
                                 /\ new[k].package = new[l].package
                                      => OldAt(k) < OldAt(l)
                   /\ FileModified(files'[fi])
      ]_vars

\* a file with a passthrough line and two records of the same expression
\* was sorted, or one whose records had to change places
C10_Witness ==
    /\ lastOp = "StoreSort"
    /\ \E fi \in 1..Len(files) :
         LET items == files[fi].items
         IN /\ Len(items) >= 2
            /\ \/ items[1].id > items[2].id
               \/ /\ items[1].package = items[2].package
                  /\ Len(ReadLines(DiskText(disk, files[fi].path))) > Len(items)

----------------------------------------------------------------------------
(* Properties of the caches *)

\* the value caches[ns][k] has when computed from the catalog as it is now
PossibleNow(ns, k) ==
    GetItem([CacheState EXCEPT !.cache = EmptyCache], ns, k).ret

\* C11: once vocabulary(), possible(k) or effective(k) has been computed for
\* a key of a catalog-backed namespace, every later call for that key returns
\* the same set and does not consult the catalog again, whatever the catalog
\* has become; no entry of either dict is ever overwritten, the vocabulary
\* (key None) and the per-package sets included.
C11_Memoized ==
    [][/\ \A ns \in DbNs :
            /\ \A k \in CacheKeys \cup {NoneKey} :
                   cache[ns][k].has => cache'[ns][k] = cache[ns][k]
            /\ \A k \in CacheKeys :
                   effective_cache[ns][k].has =>
                       effective_cache'[ns][k] = effective_cache[ns][k]
       /\ (lastOp' \in {"CacheGlob", "CacheGetItem"}
             /\ lastArg'.ns \in DbNs
             /\ cache[lastArg'.ns][lastArg'.key].has)
            => /\ lastSet' = cache[lastArg'.ns][lastArg'.key].val
               /\ queries' = queries
       /\ (lastOp' = "CacheGetEffective"
             /\ effective_cache[lastArg'.ns][lastArg'.key].has)
            => /\ lastSet' = effective_cache[lastArg'.ns][lastArg'.key].val
               /\ queries' = queries]_vars

\* possible(k) was asked again after the catalog changed its answer for k, and
\* the set first computed came back
C11_Witness ==
    /\ lastOp = "CacheGetItem"
    /\ lastArg.ns \in DbNs
    /\ changed
    /\ queries = 1
    /\ lastSet = cache[lastArg.ns][lastArg.key].val
    /\ lastSet # PossibleNow(lastArg.ns, lastArg.key)
    /\ lastSet # {}

\* the tokens self._aux_parse finds in the attribute of version p
VersionTokens(ns, p) ==
    AuxParse(ns, dbapi.aux[p][AuxKey(ns)], GrabGroups(dbapi))

\* C12: while the catalog has not changed, for every catalog-backed namespace
\* and package expression k, possible(k) contains every token parsed from the
\* attribute of every version matching k, effective(k) is a subset of
\* possible(k), and both are empty when no version matches k.
C12_PossibleCoversEffective ==
    ~changed =>
        \A ns \in DbNs : \A k \in CacheKeys :
            /\ cache[ns][k].has =>
                  /\ \A p \in SeqRange(dbapi.match[k]) :
                         VersionTokens(ns, p) \subseteq cache[ns][k].val
                  /\ dbapi.match[k] = <<>> => cache[ns][k].val = {}
            /\ effective_cache[ns][k].has =>
                  /\ cache[ns][k].has =>
                         effective_cache[ns][k].val \subseteq cache[ns][k].val
                  /\ dbapi.match[k] = <<>> => effective_cache[ns][k].val = {}
            /\ (lastOp = "CacheGetItem" /\ lastArg.ns = ns /\ lastArg.key = k)
                  => lastSet = cache[ns][k].val
            /\ (lastOp = "CacheGetEffective" /\ lastArg.ns = ns /\ lastArg.key = k)
                  => lastSet = effective_cache[ns][k].val

\* possible(k) and effective(k) were both computed for an expression that two
\* versions match, and the best version declares only part of the tokens
C12_Witness ==
    /\ ~changed
    /\ lastOp = "CacheGetEffective"
    /\ Len(dbapi.match[lastArg.key]) = 2
    /\ cache[lastArg.ns][lastArg.key].has
    /\ lastSet # {}
    /\ lastSet # cache[lastArg.ns][lastArg.key].val
    /\ lastSet \subseteq cache[lastArg.ns][lastArg.key].val

\* possible('b') and effective('b') were computed while nothing matches 'b'
C12_WitnessNoMatch ==
    /\ ~changed
    /\ lastOp = "CacheGetEffective"
    /\ dbapi.match[lastArg.key] = <<>>
    /\ cache[lastArg.ns][lastArg.key].has
    /\ lastSet = {}

\* vocabulary() of namespace ns, c being the cache dicts
Vocabulary(c, ns) == IF ns = "env" THEN {} ELSE c[ns][NoneKey].val

\* possible(k) of namespace ns, c being the cache dicts
Possible(c, ns, k) == IF ns = "env" THEN envcache ELSE c[ns][k].val

\* C13: classify_global(token, restrictTo) returns exactly the namespaces
\* among restrictTo (all four when restrictTo is empty) whose vocabulary()
\* contains token, and never the environment-file namespace;
\* classify_for_package(token, pkgExpr, restrictTo) returns exactly those
\* whose possible(pkgExpr) contains token; with a non-empty restrictTo the
\* result is a subset of restrictTo.
C13_Classify ==
    [][/\ lastOp' = "CacheGlobWhatis" =>
            /\ \A ns \in Restrict(lastArg'.restrict) \cap DbNs :
                    cache'[ns][NoneKey].has
            /\ lastSet' = {ns \in Restrict(lastArg'.restrict) :
                              lastArg'.token \in Vocabulary(cache', ns)}
            /\ "env" \notin lastSet'
            /\ lastArg'.restrict # {} => lastSet' \subseteq lastArg'.restrict
       /\ lastOp' = "CacheWhatis" =>
            /\ \A ns \in Restrict(lastArg'.restrict) \cap DbNs :
                    cache'[ns][lastArg'.key].has
            /\ lastSet' = {ns \in Restrict(lastArg'.restrict) :
                              lastArg'.token \in Possible(cache', ns, lastArg'.key)}
            /\ lastArg'.restrict # {} => lastSet' \subseteq lastArg'.restrict]_vars

\* classify_global was asked, unrestricted, about a token that names both a
\* flag and an environment file, and answered without the environment files
C13_Witness ==
    /\ lastOp = "CacheGlobWhatis"
    /\ lastArg.restrict = {}
    /\ lastArg.token \in envcache
    /\ "use" \in lastSet
    /\ "lic" \notin lastSet

\* classify_for_package was asked about the same token with restrictTo set,
\* and answered with the environment files and part of restrictTo only
C13_WitnessPackage ==
    /\ lastOp = "CacheWhatis"
    /\ lastArg.restrict = {"kw", "env"}
    /\ lastSet = {"env"}

----------------------------------------------------------------------------
(* Further properties of the record store *)

\* C14: across load, entries, append, remove, sort and write the only error
\* that reaches the caller is the not-found error of remove; text that does
\* not parse as a record never raises, whether it was read from a file or
\* passed to append as a literal.
C14_OnlyNotFound ==
    lastOp \in {"Read", "Entries", "StoreAppend", "StoreRemove", "StoreSort",
                "StoreWrite", "FileWrite"}
        => \/ lastErr = ""
           \/ lastOp = "StoreRemove" /\ lastErr = "ValueError"

\* the text PackageFile.write emits for the line object e
Emitted(e) == IF Modified(e) /\ ~Truth(e) THEN <<>> ELSE ToString(e)

\* the line objects the next access builds for the file named n of the
\* disk d: PackageFile.__init__ under read(), then the keyword defaults
Reloaded(d, n) ==
    LET its == ParseLines(ReadLines(DiskText(d, n)), 0)
    IN IF kw THEN [j \in 1..Len(its) |-> WithDefaults(its[j])] ELSE its

\* C15: store-level write() does nothing when no file is loaded; otherwise
\* it drops all loaded files, and the next access parses the same files
\* again, finds every dirty flag false and observes, for each file that was
\* written, exactly the records held when it was written, with their flags
\* and in their order (all but the dirty flagless records, which write()
\* does not emit).
C15_ReloadObservesWritten ==
    [][ lastOp' = "StoreWrite" =>
            IF files = <<>>
            THEN disk' = disk /\ opens' = opens
            ELSE /\ files' = <<>>
                 /\ ReadPaths' = [fi \in 1..Len(files) |-> files[fi].path]
                 /\ \A fi \in 1..Len(files) :
                        LET Kept(e) == ~Modified(e) \/ Truth(e)
                            Records(ls) ==
                                LET es == SelectSeq(ls, IsEntry)
                                IN [i \in 1..Len(es) |->
                                      [package |-> es[i].package,
                                       flags |-> es[i].flags]]
                            held == SelectSeq(files[fi].items, Kept)
                            seen == Reloaded(disk', files[fi].path)
                        IN /\ \A q \in 1..Len(seen) : ~Modified(seen[q])
                           /\ FileModified(files[fi]) =>
                                  Records(seen) = Records(held)
      ]_vars

\* some record of the file f is dirty
SomeRecordDirty(f) == \E q \in 1..Len(f.items) : Modified(f.items[q])

\* C16: in every state reached by load, store-level append, remove and sort,
\* flag edits and write, a file reports dirty exactly when one of its records
\* is dirty or the file was sorted, appended to or removed from since it was
\* read or last written; after a file-level write() the file and every
\* record of it report dirty = false.
C16_DirtyIff ==
    [][/\ (files' # <<>> /\ since' \cap {"force", "del"} = {}) =>
            \A fi \in 1..Len(files') :
                FileModified(files'[fi])
                    <=> (SomeRecordDirty(files'[fi]) \/ fi \in touched')
       /\ lastOp' = "FileWrite" =>
            /\ ~FileModified(files'[lastArg'.fi])
            /\ ~SomeRecordDirty(files'[lastArg'.fi])]_vars

\* a clean record was removed: the file is dirty although none of its
\* records is
C16_Witness ==
    /\ lastOp = "StoreRemove"
    /\ lastErr = ""
    /\ since \cap {"force", "del"} = {}
    /\ \E fi \in touched :
           FileModified(files[fi]) /\ ~SomeRecordDirty(files[fi])

\* a dirty file was written by a file-level write() and is clean again
C16_WitnessWrite ==
    /\ lastOp = "FileWrite"
    /\ opens = 1
    /\ lastRet # <<>>
    /\ ~FileModified(files[lastArg.fi])

\* the entry the last operation was called on, among the files fs
Target(fs, arg) ==
    LET its == fs[arg.fi].items
    IN its[CHOOSE q \in 1..Len(its) : IsEntry(its[q]) /\ its[q].id = arg.id]

\* the flags of e named n, last declared first
NamedFlagsReversed(e, n) ==
    LET idx == SelectIdx([q \in 1..Len(e.flags) |-> e.flags[q].name = n])
    IN [k \in 1..Len(idx) |-> e.flags[idx[Len(idx) + 1 - k]]]

\* C17: iterating a record yields its flags in reverse declaration order,
\* looking a name up in it yields every occurrence of that name in the same
\* reverse order, and neither changes the record's flags or its dirty flag.
C17_ReverseIteration ==
    [][/\ lastOp' = "EntryIterate" =>
            LET e == Target(Loaded, lastArg')
            IN /\ Len(lastFlags') = Len(e.flags)
               /\ \A k \in 1..Len(e.flags) :
                      lastFlags'[k] = e.flags[Len(e.flags) + 1 - k]
               /\ files' = Loaded
       /\ lastOp' = "EntryLookup" =>
            LET e == Target(Loaded, lastArg')
            IN /\ lastFlags' = NamedFlagsReversed(e, lastArg'.pkg)
               /\ files' = Loaded
       /\ (lastOp' = "GenList" /\ gen.kind \in {"iter", "lookup"}
             /\ ~gen.started) =>
            /\ lastFlags' = IF gen.kind = "iter" THEN Reverse(gen.snap.flags)
                             ELSE NamedFlagsReversed(gen.snap, gen.pkg)
            /\ files' = files]_vars

\* a name declared twice in a record was looked up: both occurrences came
\* back, the later one first
C17_Witness ==
    /\ lastOp = "EntryLookup"
    /\ Len(lastFlags) = 2
    /\ lastFlags[1] # lastFlags[2]
    /\ LET e == Target(files, lastArg)
       IN /\ Len(e.flags) = 2
          /\ lastFlags[1] = e.flags[2]
          /\ ~e.modified

\* the items of f without the records of package pkg
WithoutPackage(f, pkg) ==
    LET idx == SelectIdx([q \in 1..Len(f.items) |->
                   ~(IsEntry(f.items[q]) /\ f.items[q].package = pkg)])
    IN [i \in 1..Len(idx) |-> f.items[idx[i]]]

\* C18: del store[pkg] removes every record of pkg from every file, whatever
\* the files hold, comment and blank lines included, and leaves every other
\* line in place.
C18_DeleteEverywhere ==
    [][lastOp' = "StoreDelItem" =>
          /\ lastErr' = ""
          /\ Len(files') = Len(Loaded)
          /\ \A fi \in 1..Len(Loaded) :
                 files'[fi].items = WithoutPackage(Loaded[fi], lastArg'.pkg)]_vars

\* C19: after a file-level write() the serialisation of each record it wrote,
\* now clean, equals the text that was written for it, so that a later
\* write() of the file loses no edit.
C19_WrittenTextKept ==
    [][(lastOp' = "FileWrite" /\ FileModified(Loaded[lastArg'.fi])) =>
          \A q \in 1..Len(Loaded[lastArg'.fi].items) :
              LET e == Loaded[lastArg'.fi].items[q]
              IN Emitted(e) # <<>> =>
                     ToString(files'[lastArg'.fi].items[q]) = Emitted(e)]_vars

\* no file of the loaded store is dirty
StoreClean == \A fi \in 1..Len(files) : ~FileModified(files[fi])

\* C20: a remove that raises the not-found error has changed no file's
\* record list and no dirty flag, and a store that was clean before it
\* still opens nothing on write().
C20_FailedRemoveFrame ==
    [][/\ (lastOp' = "StoreRemove" /\ lastErr' = "ValueError") =>
            /\ files' = Loaded
            /\ touched' = LoadedTouched
            /\ disk' = disk /\ opens' = opens
       /\ (lastOp = "StoreRemove" /\ lastErr = "ValueError" /\ StoreClean
             /\ lastOp' \in {"StoreWrite", "FileWrite"})
            => disk' = disk /\ opens' = opens]_vars

\* remove was called on a clean, loaded store for a package it holds records
\* of, and raised the not-found error
C20_Witness ==
    /\ lastOp = "StoreRemove"
    /\ lastErr = "ValueError"
    /\ lastArg.kind = "str"
    /\ StoreClean
    /\ touched = {}
    /\ \E fi \in 1..Len(files) : \E q \in 1..Len(files[fi].items) :
           /\ IsEntry(files[fi].items[q])
           /\ files[fi].items[q].package = lastArg.pkg

====
